---- MODULE Spec2Model ----
(***************************************************************************)
(* PortalFinder: concurrent probing-and-classification engine.             *)
(*                                                                         *)
(* src/portalfinder.go holds two variants of the program.  Variant 1       *)
(* (lines 1-257) aggregates the matched candidates in validSubdomains and  *)
(* saves them after the scan; variant 2 (lines 259-488) appends each       *)
(* matched candidate to the output file as soon as it is found.            *)
(*                                                                         *)
(* Text (response bodies, keywords) is a sequence of one-character         *)
(* strings, so that substring search, case folding and the two regular     *)
(* expressions are computed character by character.                        *)
(*                                                                         *)
(* Goroutines interleave at the granularity of one load or one store of a  *)
(* Go variable: the unsynchronised append to validSubdomains is a load of  *)
(* the slice followed by a store of the extended slice, the unsynchronised *)
(* read of progress is a load of whatever value the counter holds then.    *)
(***************************************************************************)
EXTENDS Integers, Sequences, FiniteSets, TLC

(***************************************************************************)
(* Bounds of the model                                                     *)
(***************************************************************************)
\* longest candidate list read from the -l file
MaxCand == 2
\* largest number of fragments a response body is assembled from
MaxFrags == 2

(***************************************************************************)
(* Program constants                                                       *)
(***************************************************************************)
createAccountPaths1 ==
    << "login", "register", "signup", "signin", "create-account", "log-in",
       "sign-in", "sign-up", "authentication", "forgot-password",
       "reset-password" >>

createAccountKeywords1 ==
    << <<"l","o","g","i","n">>,
       <<"r","e","g","i","s","t","e","r">>,
       <<"s","i","g","n","u","p">>,
       <<"s","i","g","n","i","n">>,
       <<"c","r","e","a","t","e"," ","a","c","c","o","u","n","t">>,
       <<"l","o","g"," ","i","n">>,
       <<"s","i","g","n"," ","i","n">>,
       <<"s","i","g","n"," ","u","p">>,
       <<"a","u","t","h","e","n","t","i","c","a","t","i","o","n">>,
       <<"f","o","r","g","o","t"," ","p","a","s","s","w","o","r","d">>,
       <<"r","e","s","e","t"," ","p","a","s","s","w","o","r","d">> >>

createAccountPaths2 ==
    << "signup", "register", "create-account", "account/create",
       "user/create", "account/signup" >>

keywords2 ==
    << <<"c","r","e","a","t","e"," ","a","c","c","o","u","n","t">>,
       <<"s","i","g","n"," ","u","p">>,
       <<"r","e","g","i","s","t","e","r">>,
       <<"j","o","i","n">>,
       <<"s","i","g","n","u","p">> >>

\* the link terms with one that is not among the keywords
links2Extra ==
    << <<"c","r","e","a","t","e"," ","a","c","c","o","u","n","t">>,
       <<"s","i","g","n"," ","u","p">>,
       <<"r","e","g","i","s","t","e","r">>,
       <<"j","o","i","n">>,
       <<"h","e","l","l","o">> >>

links2 ==
    << <<"c","r","e","a","t","e"," ","a","c","c","o","u","n","t">>,
       <<"s","i","g","n"," ","u","p">>,
       <<"r","e","g","i","s","t","e","r">>,
       <<"j","o","i","n">> >>

\* if len(body) > 10000 { continue }
BodyCeiling == 10000

\* http.StatusOK
StatusOK == 200

MethodKeywords == "Keywords in body with form"
MethodLinks == "Links or buttons in body with form"

createAccountPaths(v) == IF v = 1 THEN createAccountPaths1 ELSE createAccountPaths2

(***************************************************************************)
(* Strings                                                                 *)
(***************************************************************************)
Upper == <<"A","B","C","D","E","F","G","H","I","J","K","L","M","N","O","P","Q","R","S","T","U","V","W","X","Y","Z">>
Lower == <<"a","b","c","d","e","f","g","h","i","j","k","l","m","n","o","p","q","r","s","t","u","v","w","x","y","z">>

Min(S) == CHOOSE x \in S : \A y \in S : x <= y
Max(S) == CHOOSE x \in S : \A y \in S : x >= y

\* strings.ToLower
ToLower(s) ==
    [i \in 1..Len(s) |->
        IF \E k \in 1..26 : Upper[k] = s[i]
        THEN Lower[CHOOSE k \in 1..26 : Upper[k] = s[i]]
        ELSE s[i]]

\* s[p..] starts with t (p is 1-based)
HasPrefixAt(s, p, t) ==
    /\ p + Len(t) - 1 <= Len(s)
    /\ \A k \in 1..Len(t) : s[p + k - 1] = t[k]

\* strings.Contains
Contains(s, sub) == \E p \in 1..(Len(s) + 1) : HasPrefixAt(s, p, sub)

\* first position q >= p with s[q..] starting with t, 0 if there is none
IndexFrom(s, p, t) ==
    LET hits == {q \in p..(Len(s) + 1) : HasPrefixAt(s, q, t)}
    IN  IF hits = {} THEN 0 ELSE Min(hits)

\* no character of s[p..q] is c
NoneIn(s, p, q, c) == \A k \in p..q : s[k] # c

\* s[p..q], empty when q < p
Slice(s, p, q) == IF q < p THEN <<>> ELSE SubSeq(s, p, q)

\* leading decimal digit of n: strings.HasPrefix(fmt.Sprint(n), "3")
RECURSIVE LeadingDigit(_)
LeadingDigit(n) == IF n < 10 THEN n ELSE LeadingDigit(n \div 10)

(***************************************************************************)
(* Response Classifier                                                     *)
(***************************************************************************)
StrA == <<"<","a">>
StrHref == <<"h","r","e","f","=","\"">>
StrEndA == <<"<","/","a",">">>
StrButton == <<"<","b","u","t","t","o","n">>
StrEndButton == <<"<","/","b","u","t","t","o","n",">">>
StrForm == <<"<","f","o","r","m">>

Keywords(v) == IF v = 1 THEN createAccountKeywords1 ELSE keywords2

\* indices of the keywords of the list that the (lowered) text contains
KeywordHits(kws, low) == {i \in 1..Len(kws) : Contains(low, kws[i])}

\* first keyword of the list, in list order, that the lowered text contains
FirstKeyword(kws, text) ==
    CHOOSE kw \in
        {IF hits = {} THEN <<>> ELSE kws[Min(hits)] :
            hits \in {KeywordHits(kws, low) : low \in {ToLower(text)}}} : TRUE

findMatchingKeyword(v, body) == FirstKeyword(Keywords(v), body)

\* `<form[^>]*>` (variant 1), strings.Contains(body, "<form") (variant 2)
containsForm(v, body) ==
    IF v = 1
    THEN \E p \in 1..Len(body) :
            /\ HasPrefixAt(body, p, StrForm)
            /\ \E q \in (p + 5)..Len(body) : body[q] = ">"
    ELSE Contains(body, StrForm)

NoMatch == [end |-> 0, g1 |-> <<>>, g2 |-> <<>>, g3 |-> <<>>]

\* the rest of `(.*?)</a>` or `(.*?)</button>` from position p: the lazy
\* group ends at the first closing tag, and `.` does not match a newline
LazyUntil(body, p, close) ==
    LET e == IndexFrom(body, p, close)
    IN  IF e # 0 /\ NoneIn(body, p, e - 1, "\n") THEN e ELSE 0

\* `href="([^"]*)"[^>]*>(.*?)</a>` with href=" at position h
AnchorFromHref(body, h) ==
    LET q == IndexFrom(body, h + 6, <<"\"">>)
        r == IF q = 0 THEN 0 ELSE IndexFrom(body, q + 1, <<">">>)
        e == IF r = 0 THEN 0 ELSE LazyUntil(body, r + 1, StrEndA)
    IN  IF e = 0 THEN NoMatch
        ELSE [end |-> e + 3, g1 |-> Slice(body, h + 6, q - 1),
              g2 |-> Slice(body, r + 1, e - 1), g3 |-> <<>>]

\* `<a[^>]*href="([^"]*)"[^>]*>(.*?)</a>` at position p: the greedy [^>]*
\* takes the last href=" of the tag from which the rest still matches
AnchorAt(body, p) ==
    IF ~HasPrefixAt(body, p, StrA) THEN NoMatch
    ELSE LET hs == {h \in (p + 2)..Len(body) :
                      /\ HasPrefixAt(body, h, StrHref)
                      /\ NoneIn(body, p + 2, h - 1, ">")
                      /\ AnchorFromHref(body, h).end # 0}
         IN  IF hs = {} THEN NoMatch ELSE AnchorFromHref(body, Max(hs))

\* `<button[^>]*>(.*?)</button>` at position p
ButtonAt(body, p) ==
    IF ~HasPrefixAt(body, p, StrButton) THEN NoMatch
    ELSE LET r == IndexFrom(body, p + 7, <<">">>)
             e == IF r = 0 THEN 0 ELSE LazyUntil(body, r + 1, StrEndButton)
         IN  IF e = 0 THEN NoMatch
             ELSE [end |-> e + 8, g1 |-> <<>>, g2 |-> <<>>,
                   g3 |-> Slice(body, r + 1, e - 1)]

\* the match of linkPattern that starts at position p: the anchor
\* alternative is tried before the button alternative
LinkMatchAt(body, p) ==
    IF AnchorAt(body, p).end # 0 THEN AnchorAt(body, p) ELSE ButtonAt(body, p)

\* positions from p on at which linkPattern matches
MatchStarts(body, p) == {q \in p..Len(body) : LinkMatchAt(body, q).end # 0}

\* re.FindAllStringSubmatch(body, -1): the successive leftmost matches that
\* do not overlap, searched from position p on (as a set: the caller only
\* asks whether some match qualifies)
RECURSIVE FindAllStringSubmatch(_, _)
FindAllStringSubmatch(body, p) ==
    UNION {IF starts = {} THEN {}
           ELSE UNION {{m} \cup FindAllStringSubmatch(body, m.end + 1) :
                          m \in {LinkMatchAt(body, Min(starts))}} :
              starts \in {MatchStarts(body, p)}}

\* variant 1 looks at match[1] (the href) and match[2] (the anchor text);
\* variant 2 searches the whole lowered body for the link terms
containsCreateAccountLinks(v, body) ==
    IF v = 1
    THEN \E match \in FindAllStringSubmatch(body, 1) :
            \/ \E g1 \in {match.g1} : findMatchingKeyword(1, g1) # <<>>
            \/ \E g2 \in {match.g2} : findMatchingKeyword(1, g2) # <<>>
    ELSE \E low \in {ToLower(body)} :
            \E i \in 1..Len(links2) : Contains(low, links2[i])

(***************************************************************************)
(* Inputs: response bodies, responses, servers, candidate lists            *)
(***************************************************************************)
FragForm == <<"<","f","o","r","m"," ","a","c","t","i","o","n","=","\"","/","x","\"",">">>
FragFormUpper == <<"<","F","O","R","M",">">>
FragSignIn == <<"S","i","g","n"," ","i","n">>
FragAnchorHref == <<"<","a"," ","h","r","e","f","=","\"","/","r","e","g","i","s","t","e","r","\"",">","g","o","<","/","a",">">>
FragAnchorText == <<"<","a"," ","h","r","e","f","=","\"","/","x","\"",">","S","i","g","n"," ","U","p","<","/","a",">">>
FragButton == <<"<","b","u","t","t","o","n",">","J","o","i","n"," ","n","o","w","<","/","b","u","t","t","o","n",">">>
FragPlain == <<"h","e","l","l","o">>

Fragments ==
    {FragForm, FragFormUpper, FragSignIn, FragAnchorHref, FragAnchorText,
     FragButton, FragPlain}

RECURSIVE BodiesOf(_)
BodiesOf(n) ==
    IF n = 0 THEN {<<>>}
    ELSE BodiesOf(n - 1) \cup {b \o f : b \in BodiesOf(n - 1), f \in Fragments}

Bodies == BodiesOf(MaxFrags)

PortalBody == FragAnchorText \o FragForm

\* statuses other than 200 and 3xx; 30 is what net/http makes of "030"
OtherStatuses == {30, 201, 204, 404, 500}

TransportErr ==
    [kind |-> "transportErr", status |-> 0, location |-> "", body |-> <<>>, pad |-> 0]

\* the statuses on which an http.Client without CheckRedirect issues a
\* follow-up request when the response carries a Location
RedirectStatuses == {301, 302, 303, 307, 308}

\* a page that would match, and an empty page
SampleBodies == {PortalBody, <<>>}

\* what a server can answer to the request of one path.  A body is its text
\* followed by resp.pad filler bytes.  Every body is served with 200; the
\* sample bodies are also served with 300 (with and without Location), with
\* the redirecting 302 and 308 (with and without Location), with the other
\* statuses, and filled up to the ceiling and to one byte more; a body whose
\* read fails comes with 200 and with 300
Responses ==
    {TransportErr} \cup
    {[kind |-> "readErr", status |-> 200, location |-> "", body |-> <<>>, pad |-> 0],
     [kind |-> "readErr", status |-> 300, location |-> "/welcome", body |-> <<>>,
      pad |-> 0]} \cup
    {[kind |-> "ok", status |-> 200, location |-> "", body |-> b, pad |-> 0] :
        b \in Bodies} \cup
    {[kind |-> "ok", status |-> s, location |-> l, body |-> b, pad |-> 0] :
        s \in {300, 302, 308}, l \in {"", "/welcome"}, b \in SampleBodies} \cup
    {[kind |-> "ok", status |-> s, location |-> "", body |-> b, pad |-> 0] :
        s \in OtherStatuses, b \in SampleBodies} \cup
    {[kind |-> "ok", status |-> 200, location |-> "", body |-> b,
      pad |-> BodyCeiling + d - Len(b)] : b \in SampleBodies, d \in {0, 1}}

NotFound ==
    [kind |-> "ok", status |-> 404, location |-> "", body |-> FragPlain, pad |-> 0]
PortalPage ==
    [kind |-> "ok", status |-> 200, location |-> "", body |-> PortalBody, pad |-> 0]
RedirectPage ==
    [kind |-> "ok", status |-> 302, location |-> "/welcome",
     body |-> FragPlain, pad |-> 0]

\* what the follow-up request to a redirect target can end in: the request
\* fails (a chain of more than ten redirects does), or the target answers
TargetResponses == {TransportErr, NotFound, PortalPage}

\* the client issues a follow-up request instead of returning resp
Follows(resp) ==
    /\ resp.kind # "transportErr"
    /\ resp.status \in RedirectStatuses
    /\ resp.location # ""

\* resp, err := httpClient.Get(url), the server answering url with raw and
\* the redirect target, if the client asks for it, with target
Get(raw, target) == IF Follows(raw) THEN target ELSE raw

\* all that httpClient.Get(url) can return when the server answers raw
Answers(raw) ==
    IF Follows(raw) THEN {Get(raw, t) : t \in TargetResponses} ELSE {Get(raw, raw)}

\* what the three classifier functions return on a body
classify(v, body) ==
    [keywordHit |-> findMatchingKeyword(v, body),
     linkHit    |-> containsCreateAccountLinks(v, body),
     hasForm    |-> containsForm(v, body)]

\* the classifier on every body of the model, per variant
ClassifyTable == [v \in {1, 2} |-> [b \in Bodies |-> classify(v, b)]]

ClassOf(v, body) == ClassifyTable[v][body]

(***************************************************************************)
(* Candidate Scanner: one iteration of the probe loop of checkSubdomain    *)
(***************************************************************************)
\* the locals of checkSubdomain at its entry
ScanLocals0 ==
    [accountPortalFound |-> FALSE, redirectURL |-> "", detectionMethod |-> "",
     matchedKeyword |-> <<>>, hasForm |-> FALSE]

\* len(body): the text of the body followed by resp.pad filler bytes
BodyLen(resp) == Len(resp.body) + resp.pad

\* the status test had it accepted every 2xx status
StatusRejectedNon2xx(status) == ~(status \in 200..299) /\ LeadingDigit(status) # 3

\* resp.StatusCode != http.StatusOK && !strings.HasPrefix(fmt.Sprint(resp.StatusCode), "3")
StatusRejected(status) == status # StatusOK /\ LeadingDigit(status) # 3

\* the size test had it skipped a body of exactly the ceiling
ReachesClassifierGe(resp) ==
    /\ resp.kind # "transportErr"
    /\ ~StatusRejected(resp.status)
    /\ resp.kind # "readErr"
    /\ ~(BodyLen(resp) >= BodyCeiling)

\* the response gets past every `continue` that precedes the classifier
ReachesClassifier(resp) ==
    /\ resp.kind # "transportErr"
    /\ ~StatusRejected(resp.status)
    /\ resp.kind # "readErr"
    /\ ~(BodyLen(resp) > BodyCeiling)

\* the two rules in the opposite order
ClassifyLinkFirst(st, c) ==
    LET st2 == [st EXCEPT !.matchedKeyword = c.keywordHit]
    IN  IF c.linkHit /\ c.hasForm
        THEN [st2 EXCEPT !.accountPortalFound = TRUE,
                         !.detectionMethod = MethodLinks,
                         !.hasForm = TRUE]
        ELSE IF c.keywordHit # <<>> /\ c.hasForm
        THEN [st2 EXCEPT !.accountPortalFound = TRUE,
                         !.detectionMethod = MethodKeywords,
                         !.hasForm = TRUE]
        ELSE st2

\* rule A, then rule B, on the classification c of a body that reached the
\* classifier
Classify(st, c) ==
    LET st2 == [st EXCEPT !.matchedKeyword = c.keywordHit]
    IN  IF c.keywordHit # <<>> /\ c.hasForm
        THEN [st2 EXCEPT !.accountPortalFound = TRUE,
                         !.detectionMethod = MethodKeywords,
                         !.hasForm = TRUE]
        ELSE IF c.linkHit /\ c.hasForm
        THEN [st2 EXCEPT !.accountPortalFound = TRUE,
                         !.detectionMethod = MethodLinks,
                         !.hasForm = TRUE]
        ELSE st2

\* the body of the for loop: the locals after the iteration; the loop is
\* left (break) exactly when accountPortalFound has become TRUE
ScanIteration(v, st, resp) ==
    IF resp.kind = "transportErr" THEN st
    ELSE LET st1 == IF resp.status >= 300 /\ resp.status < 400
                    THEN [st EXCEPT !.redirectURL = resp.location]
                    ELSE st
         IN  IF ReachesClassifier(resp) THEN Classify(st1, ClassOf(v, resp.body)) ELSE st1

\* for _, path := range createAccountPaths, against a server that answers
\* path i with srv[i]; st1 is the value of the locals after iteration i
RECURSIVE RunScan(_, _, _, _)
RunScan(v, st, srv, i) ==
    IF i > Len(createAccountPaths(v)) THEN st
    ELSE CHOOSE out \in
            {IF st1.accountPortalFound THEN st1 ELSE RunScan(v, st1, srv, i + 1) :
                st1 \in {ScanIteration(v, st, srv[i])}} : TRUE

\* return value of checkSubdomain
ScanVerdict(st) == st.accountPortalFound /\ st.hasForm

\* what httpClient.Get returns for each path of each candidate host: a.test
\* redirects its first path to a page it does not have and serves a portal
\* page on its second, b.test knows none of the paths
ServerOf(host, v) ==
    [i \in 1..Len(createAccountPaths(v)) |->
        IF host = "http://a.test" /\ i = 1 THEN Get(RedirectPage, NotFound)
        ELSE IF host = "http://a.test" /\ i = 2 THEN PortalPage
        ELSE NotFound]

Candidates == {"http://a.test", "http://b.test"}

RECURSIVE ListsOf(_)
ListsOf(n) ==
    IF n = 0 THEN {<<>>}
    ELSE ListsOf(n - 1) \cup
         {Append(l, c) : l \in {m \in ListsOf(n - 1) : Len(m) = n - 1}, c \in Candidates}

CandidateLists == ListsOf(MaxCand)

\* checkSubdomain(host, verbose): the locals at the end of the probe loop,
\* per variant and candidate host
HostScan ==
    [v \in {1, 2} |->
        [h \in Candidates |->
            CHOOSE st \in {RunScan(v, ScanLocals0, srv, 1) : srv \in {ServerOf(h, v)}} : TRUE]]

(***************************************************************************)
(* State                                                                   *)
(***************************************************************************)
VARIABLES
    variant,          \* 1: aggregate then save, 2: append to the file as found
    outputFlag,       \* -o was given
    subdomains,       \* the candidate list read from the -l file
    mainPc,           \* main: "spawn", "wait", "signal", "save", "exit", "fatal"
    mainIdx,          \* main: number of goroutines launched so far
    unitPc,           \* per-candidate goroutine: position in the closure
    verdict,          \* per unit: return value of checkSubdomain
    scanCount,        \* per unit: number of calls of checkSubdomain
    loaded,           \* per unit: the slice value read by append
    validSubdomains,  \* variant 1: the outcome set
    mu,               \* holder of the mutex, 0 when free
    progress,         \* the shared completed-count
    sending,          \* per unit: the operand evaluated for progressChan <- progress
    received,         \* the counts the reporter has received, in order
    wg,               \* WaitGroup counter
    reporterPc,       \* animatedIndicator: "select", "render", "returned"
    fileLines,        \* the lines of the output file
    writeFailures,    \* number of failed writes to the output file reported by log
    scanPc,           \* one scanner followed probe by probe: "idle", "loop", "print", "returned"
    scan,             \* its locals
    probed,           \* the URLs it has requested, in order
    lastProbe,        \* what its latest iteration saw and did
    matchedAt,        \* index of the iteration that set accountPortalFound, 0 if none
    errorsOnly,       \* every request so far ended in a transport or body-read error
    scanResult,       \* its return value
    clsPc,            \* the classifier applied to one body: "call", "returned"
    clsBody,          \* the body it is applied to
    clsResult         \* what the three classifier functions returned

orchVars ==
    <<subdomains, mainPc, mainIdx, unitPc, verdict, scanCount, loaded,
      validSubdomains, mu, progress, sending, received, wg, reporterPc,
      fileLines, writeFailures>>

scanVars == <<scanPc, scan, probed, lastProbe, matchedAt, errorsOnly, scanResult>>

clsVars == <<clsPc, clsBody, clsResult>>

vars == <<variant, outputFlag, orchVars, scanVars, clsVars>>

Units == 1..Len(subdomains)

NoProbe ==
    [url |-> "", kind |-> "none", status |-> 0, location |-> "", excess |-> -1,
     over |-> FALSE, classified |-> FALSE, keyword |-> <<>>, linkHit |-> FALSE,
     form |-> FALSE, served |-> [status |-> 0, location |-> "", portal |-> FALSE]]

\* the orchestrator before main has launched anything
OrchInit(list) ==
    /\ subdomains = list
    /\ mainPc = "spawn"
    /\ mainIdx = 0
    /\ unitPc = [u \in 1..Len(list) |-> "idle"]
    /\ verdict = [u \in 1..Len(list) |-> FALSE]
    /\ scanCount = [u \in 1..Len(list) |-> 0]
    /\ loaded = [u \in 1..Len(list) |-> <<>>]
    /\ validSubdomains = <<>>
    /\ mu = 0
    /\ progress = 0
    /\ sending = [u \in 1..Len(list) |-> 0]
    /\ received = <<>>
    /\ wg = 0
    /\ reporterPc = "select"
    /\ fileLines = <<>>
    /\ writeFailures = 0

ScanIdle ==
    /\ scanPc = "idle"
    /\ scan = ScanLocals0
    /\ probed = <<>>
    /\ lastProbe = NoProbe
    /\ matchedAt = 0
    /\ errorsOnly = TRUE
    /\ scanResult = FALSE

ClsIdle ==
    /\ clsPc = "idle"
    /\ clsBody = <<>>
    /\ clsResult = [keywordHit |-> <<>>, linkHit |-> FALSE, hasForm |-> FALSE]

Init ==
    /\ variant \in {1, 2}
    /\ outputFlag \in BOOLEAN
    /\ \E list \in CandidateLists : OrchInit(list)
    /\ ScanIdle
    /\ ClsIdle

(***************************************************************************)
(* Scan Orchestrator: main                                                 *)
(***************************************************************************)
\* for idx, subdomain := range subdomains { wg.Add(1); go func(...) {...} }
MainSpawn ==
    /\ mainPc = "spawn"
    /\ mainIdx < Len(subdomains)
    /\ mainIdx' = mainIdx + 1
    /\ wg' = wg + 1
    /\ unitPc' = [unitPc EXCEPT ![mainIdx + 1] = "check"]
    /\ UNCHANGED <<variant, outputFlag, subdomains, mainPc, verdict, scanCount,
                   loaded, validSubdomains, mu, progress, sending, received,
                   reporterPc, fileLines, scanVars, clsVars, writeFailures>>

\* the range loop is exhausted
MainLoopEnd ==
    /\ mainPc = "spawn"
    /\ mainIdx = Len(subdomains)
    /\ mainPc' = "wait"
    /\ UNCHANGED <<variant, outputFlag, subdomains, mainIdx, unitPc, verdict,
                   scanCount, loaded, validSubdomains, mu, progress, sending,
                   received, wg, reporterPc, fileLines, scanVars, clsVars, writeFailures>>

\* main going on without waiting for the units
MainWaitNoBarrier ==
    /\ mainPc = "wait"
    /\ mainPc' = "signal"
    /\ UNCHANGED <<variant, outputFlag, subdomains, mainIdx, unitPc, verdict,
                   scanCount, loaded, validSubdomains, mu, progress, sending,
                   received, wg, reporterPc, fileLines, scanVars, clsVars, writeFailures>>

\* wg.Wait()
MainWait ==
    /\ mainPc = "wait"
    /\ wg = 0
    /\ mainPc' = "signal"
    /\ UNCHANGED <<variant, outputFlag, subdomains, mainIdx, unitPc, verdict,
                   scanCount, loaded, validSubdomains, mu, progress, sending,
                   received, wg, reporterPc, fileLines, scanVars, clsVars, writeFailures>>

\* indicatorDone <- true, received by the select of animatedIndicator
MainSignal ==
    /\ mainPc = "signal"
    /\ reporterPc = "select"
    /\ reporterPc' = "returned"
    /\ mainPc' = IF variant = 1 /\ outputFlag THEN "save" ELSE "exit"
    /\ UNCHANGED <<variant, outputFlag, subdomains, mainIdx, unitPc, verdict,
                   scanCount, loaded, validSubdomains, mu, progress, sending,
                   received, wg, fileLines, scanVars, clsVars, writeFailures>>

\* saveSubdomainsToFile(validSubdomains, *outputFlag): the file is created
\* (truncated) and the lines are written until one write fails
MainSave ==
    /\ mainPc = "save"
    /\ \E n \in 0..Len(validSubdomains) :
          /\ fileLines' = SubSeq(validSubdomains, 1, n)
          /\ mainPc' = IF n = Len(validSubdomains) THEN "exit" ELSE "fatal"
          /\ writeFailures' = IF n = Len(validSubdomains) THEN writeFailures
                               ELSE writeFailures + 1
    /\ UNCHANGED <<variant, outputFlag, subdomains, mainIdx, unitPc, verdict,
                   scanCount, loaded, validSubdomains, mu, progress, sending,
                   received, wg, reporterPc, scanVars, clsVars>>

Main == MainSpawn \/ MainLoopEnd \/ MainWait \/ MainSignal \/ MainSave

(***************************************************************************)
(* Scan Orchestrator: the goroutine of candidate u                         *)
(***************************************************************************)
\* an append that adds the element twice
appendTwice(s, x) == s \o <<x, x>>

\* built-in append
append(s, x) == Append(s, x)

\* checkSubdomain(subdomain, verbose[, outputFile]) up to fmt.Print("\r"):
\* the probe loop against the host, then the carriage return is written to
\* the terminal
UnitCheck(u) ==
    /\ unitPc[u] = "check"
    /\ scanCount' = [scanCount EXCEPT ![u] = @ + 1]
    /\ unitPc' = [unitPc EXCEPT ![u] = "printLine"]
    /\ UNCHANGED <<variant, outputFlag, subdomains, mainPc, mainIdx, verdict,
                   loaded, validSubdomains, mu, progress, sending, received, wg,
                   reporterPc, fileLines, scanVars, clsVars, writeFailures>>

\* the write to the output file done for every candidate, matched or not
UnitPrintLineWritesAll(u) ==
    /\ unitPc[u] = "printLine"
    /\ \E writeOk \in BOOLEAN :
          LET st == HostScan[variant][subdomains[u]]
              writes == variant = 2 /\ outputFlag
          IN  /\ verdict' = [verdict EXCEPT ![u] = ScanVerdict(st)]
              /\ fileLines' = IF writes /\ writeOk
                               THEN Append(fileLines, subdomains[u])
                               ELSE fileLines
              /\ writeFailures' = IF writes /\ ~writeOk
                                   THEN writeFailures + 1 ELSE writeFailures
              /\ unitPc' = [unitPc EXCEPT ![u] =
                    IF variant = 1 /\ ScanVerdict(st) THEN "appendLoad" ELSE "lock"]
    /\ UNCHANGED <<variant, outputFlag, subdomains, mainPc, mainIdx, scanCount,
                   loaded, validSubdomains, mu, progress, sending, received, wg,
                   reporterPc, scanVars, clsVars>>

\* the rest of checkSubdomain: the result line is written to the terminal
\* (the negative one only with -v); in variant 2 a matched candidate is
\* written to the output file, a failed write being logged; the verdict is
\* returned
UnitPrintLine(u) ==
    /\ unitPc[u] = "printLine"
    /\ \E writeOk \in BOOLEAN :
          LET st == HostScan[variant][subdomains[u]]
              writes == variant = 2 /\ ScanVerdict(st) /\ outputFlag
          IN  /\ verdict' = [verdict EXCEPT ![u] = ScanVerdict(st)]
              /\ fileLines' = IF writes /\ writeOk
                               THEN Append(fileLines, subdomains[u])
                               ELSE fileLines
              /\ writeFailures' = IF writes /\ ~writeOk
                                   THEN writeFailures + 1 ELSE writeFailures
              /\ unitPc' = [unitPc EXCEPT ![u] =
                    IF variant = 1 /\ ScanVerdict(st) THEN "appendLoad" ELSE "lock"]
    /\ UNCHANGED <<variant, outputFlag, subdomains, mainPc, mainIdx, scanCount,
                   loaded, validSubdomains, mu, progress, sending, received, wg,
                   reporterPc, scanVars, clsVars>>

\* validSubdomains = append(validSubdomains, subdomain): read of the slice
UnitAppendLoad(u) ==
    /\ unitPc[u] = "appendLoad"
    /\ loaded' = [loaded EXCEPT ![u] = validSubdomains]
    /\ unitPc' = [unitPc EXCEPT ![u] = "appendStore"]
    /\ UNCHANGED <<variant, outputFlag, subdomains, mainPc, mainIdx, verdict,
                   scanCount, validSubdomains, mu, progress, sending, received,
                   wg, reporterPc, fileLines, scanVars, clsVars, writeFailures>>

\* validSubdomains = append(validSubdomains, subdomain): write of the result
UnitAppendStore(u) ==
    /\ unitPc[u] = "appendStore"
    /\ validSubdomains' = append(loaded[u], subdomains[u])
    /\ loaded' = [loaded EXCEPT ![u] = <<>>]
    /\ unitPc' = [unitPc EXCEPT ![u] = "lock"]
    /\ UNCHANGED <<variant, outputFlag, subdomains, mainPc, mainIdx, verdict,
                   scanCount, mu, progress, sending, received, wg, reporterPc,
                   fileLines, scanVars, clsVars, writeFailures>>

\* mu.Lock()
UnitLock(u) ==
    /\ unitPc[u] = "lock"
    /\ mu = 0
    /\ mu' = u
    /\ unitPc' = [unitPc EXCEPT ![u] = "inc"]
    /\ UNCHANGED <<variant, outputFlag, subdomains, mainPc, mainIdx, verdict,
                   scanCount, loaded, validSubdomains, progress, sending,
                   received, wg, reporterPc, fileLines, scanVars, clsVars, writeFailures>>

\* the increment applied to a copy of the counter
UnitIncLocal(u) ==
    /\ unitPc[u] = "inc"
    /\ unitPc' = [unitPc EXCEPT ![u] = "unlock"]
    /\ UNCHANGED <<variant, outputFlag, subdomains, mainPc, mainIdx, verdict,
                   scanCount, loaded, validSubdomains, mu, progress, sending,
                   received, wg, reporterPc, fileLines, scanVars, clsVars, writeFailures>>

\* progress++
UnitInc(u) ==
    /\ unitPc[u] = "inc"
    /\ progress' = progress + 1
    /\ unitPc' = [unitPc EXCEPT ![u] = "unlock"]
    /\ UNCHANGED <<variant, outputFlag, subdomains, mainPc, mainIdx, verdict,
                   scanCount, loaded, validSubdomains, mu, sending, received,
                   wg, reporterPc, fileLines, scanVars, clsVars, writeFailures>>

\* mu.Unlock()
UnitUnlock(u) ==
    /\ unitPc[u] = "unlock"
    /\ mu' = 0
    /\ unitPc' = [unitPc EXCEPT ![u] = "read"]
    /\ UNCHANGED <<variant, outputFlag, subdomains, mainPc, mainIdx, verdict,
                   scanCount, loaded, validSubdomains, progress, sending,
                   received, wg, reporterPc, fileLines, scanVars, clsVars, writeFailures>>

\* progressChan <- progress: the operand is evaluated
UnitRead(u) ==
    /\ unitPc[u] = "read"
    /\ sending' = [sending EXCEPT ![u] = progress]
    /\ unitPc' = [unitPc EXCEPT ![u] = "send"]
    /\ UNCHANGED <<variant, outputFlag, subdomains, mainPc, mainIdx, verdict,
                   scanCount, loaded, validSubdomains, mu, progress, received,
                   wg, reporterPc, fileLines, scanVars, clsVars, writeFailures>>

\* a send that completes without a receiver, as on a buffered channel
UnitSendBuffered(u) ==
    /\ unitPc[u] = "send"
    /\ sending' = [sending EXCEPT ![u] = 0]
    /\ unitPc' = [unitPc EXCEPT ![u] = "deferred"]
    /\ UNCHANGED <<variant, outputFlag, subdomains, mainPc, mainIdx, verdict,
                   scanCount, loaded, validSubdomains, mu, progress, received,
                   wg, reporterPc, fileLines, scanVars, clsVars, writeFailures>>

\* progressChan <- progress: the unbuffered send meets the receive of the
\* select in animatedIndicator
UnitSend(u) ==
    /\ unitPc[u] = "send"
    /\ reporterPc = "select"
    /\ received' = Append(received, sending[u])
    /\ sending' = [sending EXCEPT ![u] = 0]
    /\ reporterPc' = "render"
    /\ unitPc' = [unitPc EXCEPT ![u] = "deferred"]
    /\ UNCHANGED <<variant, outputFlag, subdomains, mainPc, mainIdx, verdict,
                   scanCount, loaded, validSubdomains, mu, progress, wg,
                   fileLines, scanVars, clsVars, writeFailures>>

\* defer wg.Done()
UnitDone(u) ==
    /\ unitPc[u] = "deferred"
    /\ wg' = wg - 1
    /\ unitPc' = [unitPc EXCEPT ![u] = "done"]
    /\ UNCHANGED <<variant, outputFlag, subdomains, mainPc, mainIdx, verdict,
                   scanCount, loaded, validSubdomains, mu, progress, sending,
                   received, reporterPc, fileLines, scanVars, clsVars, writeFailures>>

Unit(u) ==
    \/ UnitCheck(u) \/ UnitPrintLine(u)
    \/ UnitAppendLoad(u) \/ UnitAppendStore(u) \/ UnitLock(u)
    \/ UnitInc(u) \/ UnitUnlock(u) \/ UnitRead(u) \/ UnitSend(u) \/ UnitDone(u)

(***************************************************************************)
(* Progress Reporter                                                       *)
(***************************************************************************)
\* a reporter that returns after the first count it receives
ReporterRenderStops ==
    /\ reporterPc = "render"
    /\ reporterPc' = "returned"
    /\ UNCHANGED <<variant, outputFlag, subdomains, mainPc, mainIdx, unitPc,
                   verdict, scanCount, loaded, validSubdomains, mu, progress,
                   sending, received, wg, fileLines, scanVars, clsVars, writeFailures>>

\* case progress := <-progressChan: the line is printed (variant 1 then
\* sleeps 100ms) and the loop returns to the select
ReporterRender ==
    /\ reporterPc = "render"
    /\ reporterPc' = "select"
    /\ UNCHANGED <<variant, outputFlag, subdomains, mainPc, mainIdx, unitPc,
                   verdict, scanCount, loaded, validSubdomains, mu, progress,
                   sending, received, wg, fileLines, scanVars, clsVars, writeFailures>>

Next == Main \/ (\E u \in Units : Unit(u)) \/ ReporterRender

Spec == Init /\ [][Next]_vars

\* every goroutine that can take a step eventually takes one
Fairness ==
    /\ WF_vars(Main)
    /\ \A u \in 1..MaxCand : WF_vars(u \in Units /\ Unit(u))
    /\ WF_vars(ReporterRender)

FairSpec == Spec /\ Fairness

(***************************************************************************)
(* Candidate Scanner, followed probe by probe against arbitrary responses  *)
(***************************************************************************)
\* the candidate this scanner is called with
ScanCandidate == "http://c.test"

ScanInit ==
    /\ variant \in {1, 2}
    /\ outputFlag \in BOOLEAN
    /\ OrchInit(<<>>)
    /\ scanPc = "loop"
    /\ scan = ScanLocals0
    /\ probed = <<>>
    /\ lastProbe = NoProbe
    /\ matchedAt = 0
    /\ errorsOnly = TRUE
    /\ scanResult = FALSE
    /\ ClsIdle

\* url := fmt.Sprintf("%s/%s", subdomain, path)
ProbeURL(subdomain, path) == subdomain \o "/" \o path

\* BodyLen(resp) against the ceiling: -1 below it, 0 at it, 1 one byte over
\* it, 2 further over it
Excess(resp) ==
    IF BodyLen(resp) < BodyCeiling THEN -1
    ELSE IF BodyLen(resp) - BodyCeiling > 1 THEN 2
    ELSE BodyLen(resp) - BodyCeiling

\* what is kept of one iteration: the URL requested, what the server
\* answered to it (raw), what httpClient.Get returned (resp), and what the
\* classifier functions say of the body returned (c)
ProbeSummary(url, raw, resp, c) ==
    [url |-> url, kind |-> resp.kind, status |-> resp.status,
     location |-> resp.location, excess |-> Excess(resp),
     over |-> BodyLen(resp) > BodyCeiling,
     classified |-> ReachesClassifier(resp),
     keyword |-> c.keywordHit, linkHit |-> c.linkHit, form |-> c.hasForm,
     served |-> [status |-> raw.status, location |-> raw.location,
                 portal |-> /\ raw.kind = "ok"
                            /\ BodyLen(raw) <= BodyCeiling
                            /\ ClassOf(variant, raw.body).keywordHit # <<>>
                            /\ ClassOf(variant, raw.body).hasForm]]

\* the loop given up at the first request or body read that fails
ScanProbeErrorAborts ==
    /\ scanPc = "loop"
    /\ \E raw \in Responses : \E resp \in Answers(raw) :
          LET paths == createAccountPaths(variant)
              i     == Len(probed) + 1
              st1   == ScanIteration(variant, scan, resp)
              c     == ClassOf(variant, resp.body)
          IN  /\ scan' = st1
              /\ probed' = Append(probed, ProbeURL(ScanCandidate, paths[i]))
              /\ lastProbe' = ProbeSummary(ProbeURL(ScanCandidate, paths[i]), raw, resp, c)
              /\ matchedAt' = IF st1.accountPortalFound THEN i ELSE matchedAt
              /\ errorsOnly' = (errorsOnly /\ resp.kind \in {"transportErr", "readErr"})
              /\ scanPc' = IF \/ st1.accountPortalFound
                              \/ i = Len(paths)
                              \/ resp.kind \in {"transportErr", "readErr"}
                           THEN "print" ELSE "loop"
    /\ UNCHANGED <<variant, outputFlag, orchVars, scanResult, clsVars>>

\* the loop without its break: it ends only after the last path
ScanProbeNoBreak ==
    /\ scanPc = "loop"
    /\ \E raw \in Responses : \E resp \in Answers(raw) :
          LET paths == createAccountPaths(variant)
              i     == Len(probed) + 1
              st1   == ScanIteration(variant, scan, resp)
              c     == ClassOf(variant, resp.body)
          IN  /\ scan' = st1
              /\ probed' = Append(probed, ProbeURL(ScanCandidate, paths[i]))
              /\ lastProbe' = ProbeSummary(ProbeURL(ScanCandidate, paths[i]), raw, resp, c)
              /\ matchedAt' = IF st1.accountPortalFound THEN i ELSE matchedAt
              /\ errorsOnly' = (errorsOnly /\ resp.kind \in {"transportErr", "readErr"})
              /\ scanPc' = IF i = Len(paths) THEN "print" ELSE "loop"
    /\ UNCHANGED <<variant, outputFlag, orchVars, scanResult, clsVars>>

\* one iteration of the loop: the next path of the list is requested and the
\* response handled; the loop ends on break and after the last path
ScanProbe ==
    /\ scanPc = "loop"
    /\ \E raw \in Responses : \E resp \in Answers(raw) :
          LET paths == createAccountPaths(variant)
              i     == Len(probed) + 1
              st1   == ScanIteration(variant, scan, resp)
              c     == ClassOf(variant, resp.body)
          IN  /\ scan' = st1
              /\ probed' = Append(probed, ProbeURL(ScanCandidate, paths[i]))
              /\ lastProbe' = ProbeSummary(ProbeURL(ScanCandidate, paths[i]), raw, resp, c)
              /\ matchedAt' = IF st1.accountPortalFound THEN i ELSE matchedAt
              /\ errorsOnly' = (errorsOnly /\ resp.kind \in {"transportErr", "readErr"})
              /\ scanPc' = IF st1.accountPortalFound \/ i = Len(paths)
                           THEN "print" ELSE "loop"
    /\ UNCHANGED <<variant, outputFlag, orchVars, scanResult, clsVars>>

\* after the loop: the result line is printed, variant 2 writes a matched
\* candidate to the output file (a failed write is only logged), and the
\* verdict is returned
ScanReturn ==
    /\ scanPc = "print"
    /\ scanResult' = ScanVerdict(scan)
    /\ scanPc' = "returned"
    /\ \E writeOk \in BOOLEAN :
          LET writes == variant = 2 /\ ScanVerdict(scan) /\ outputFlag
          IN  /\ fileLines' = IF writes /\ writeOk
                               THEN Append(fileLines, ScanCandidate)
                               ELSE fileLines
              /\ writeFailures' = IF writes /\ ~writeOk
                                   THEN writeFailures + 1 ELSE writeFailures
    /\ UNCHANGED <<variant, outputFlag, subdomains, mainPc, mainIdx, unitPc,
                   verdict, scanCount, loaded, validSubdomains, mu, progress,
                   sending, received, wg, reporterPc, scan, probed, lastProbe,
                   matchedAt, errorsOnly, clsVars>>

ScanNext == ScanProbe \/ ScanReturn

ScanSpec == ScanInit /\ [][ScanNext]_vars

(***************************************************************************)
(* One candidate from launch to wg.Done(), its checkSubdomain followed     *)
(* probe by probe against arbitrary responses                              *)
(***************************************************************************)
UnitScanInit ==
    /\ variant \in {1, 2}
    /\ outputFlag \in BOOLEAN
    /\ OrchInit(<<ScanCandidate>>)
    /\ ScanIdle
    /\ ClsIdle

\* accountPortalFound := checkSubdomain(subdomain, verbose): the call
UnitScanCall ==
    /\ unitPc[1] = "check"
    /\ scanPc = "idle"
    /\ scanPc' = "loop"
    /\ scanCount' = [scanCount EXCEPT ![1] = @ + 1]
    /\ UNCHANGED <<variant, outputFlag, subdomains, mainPc, mainIdx, unitPc,
                   verdict, loaded, validSubdomains, mu, progress, sending,
                   received, wg, reporterPc, fileLines, writeFailures, scan,
                   probed, lastProbe, matchedAt, errorsOnly, scanResult, clsVars>>

\* accountPortalFound := checkSubdomain(subdomain, verbose): the value
\* returned is tested by the closure
UnitScanReturn ==
    /\ unitPc[1] = "check"
    /\ scanPc = "returned"
    /\ verdict' = [verdict EXCEPT ![1] = scanResult]
    /\ unitPc' = [unitPc EXCEPT ![1] =
            IF variant = 1 /\ scanResult THEN "appendLoad" ELSE "lock"]
    /\ UNCHANGED <<variant, outputFlag, subdomains, mainPc, mainIdx, scanCount,
                   loaded, validSubdomains, mu, progress, sending, received, wg,
                   reporterPc, fileLines, writeFailures, scanVars, clsVars>>

UnitScanNext ==
    \/ Main
    \/ UnitScanCall \/ ScanProbe \/ ScanReturn \/ UnitScanReturn
    \/ UnitAppendLoad(1) \/ UnitAppendStore(1) \/ UnitLock(1) \/ UnitInc(1)
    \/ UnitUnlock(1) \/ UnitRead(1) \/ UnitSend(1) \/ UnitDone(1)
    \/ ReporterRender

UnitScanSpec == UnitScanInit /\ [][UnitScanNext]_vars

(***************************************************************************)
(* Response Classifier, applied to one body                                *)
(***************************************************************************)
FragButtonSignUp == <<"<","b","u","t","t","o","n",">","S","i","g","n"," ","u","p","<","/","b","u","t","t","o","n",">">>

\* the bodies the classifier is applied to
ClsBodies == Bodies \cup {FragButtonSignUp, FragButtonSignUp \o FragForm}

ClassifyInit ==
    /\ variant \in {1, 2}
    /\ outputFlag = FALSE
    /\ OrchInit(<<>>)
    /\ ScanIdle
    /\ clsPc = "call"
    /\ clsBody \in ClsBodies
    /\ clsResult = [keywordHit |-> <<>>, linkHit |-> FALSE, hasForm |-> FALSE]

\* matchedKeyword := findMatchingKeyword(bodyStr), containsForm(bodyStr),
\* containsCreateAccountLinks(bodyStr)
ClassifyCall ==
    /\ clsPc = "call"
    /\ clsResult' = classify(variant, clsBody)
    /\ clsPc' = "returned"
    /\ UNCHANGED <<variant, outputFlag, orchVars, scanVars, clsBody>>

ClassifySpec == ClassifyInit /\ [][ClassifyCall]_vars

(***************************************************************************)
(* Properties                                                              *)
(***************************************************************************)
\* main has passed wg.Wait()
AfterBarrier == mainPc \in {"signal", "save", "exit", "fatal"}

\* number of occurrences of c in seq
Count(seq, c) == Cardinality({i \in 1..Len(seq) : seq[i] = c})

\* the scan is over: main has left, the reporter has returned, every unit
\* has run to its end
Terminated ==
    /\ mainPc \in {"exit", "fatal"}
    /\ reporterPc = "returned"
    /\ \A u \in Units : unitPc[u] = "done"

\* the latest probe satisfied rule A or rule B
LastProbeMatches ==
    /\ lastProbe.classified
    /\ lastProbe.form
    /\ (lastProbe.keyword # <<>> \/ lastProbe.linkHit)

\* C1: in variant 1, once main has joined all units, validSubdomains holds
\* exactly the matched candidates, each as often as it occurs matched in the
\* input: no append is lost and nothing else is present.
C1_OutcomeExactlyMatched ==
    (variant = 1 /\ AfterBarrier) =>
        \A c \in Candidates :
            Count(validSubdomains, c) =
                Cardinality({u \in Units : subdomains[u] = c /\ verdict[u]})

\* C2: the counts the reporter receives never decrease, and once the scan
\* has been joined the last count received is the number of candidates.
C2_CountsNonDecreasingToTotal ==
    /\ \A i \in 1..(Len(received) - 1) : received[i] <= received[i + 1]
    /\ (AfterBarrier /\ Len(subdomains) > 0) =>
            received[Len(received)] = Len(subdomains)

\* C3: a unit takes a step that reads or writes validSubdomains or progress
\* (the two halves of the append, the increment, the read of the counter for
\* the progress event) only while it holds the mutex.
C3_SharedStateOnlyUnderMutex ==
    [][\A u \in Units :
          (/\ unitPc[u] \in {"appendLoad", "appendStore", "inc", "read"}
           /\ unitPc'[u] # unitPc[u]) => mu = u]_vars

\* C4: one unit is launched per candidate, in list order, each calls
\* checkSubdomain at most once, and once main has passed the barrier every
\* candidate has been scanned exactly once and progress equals the length of
\* the candidate list.
C4_EachCandidateScannedOnce ==
    /\ mainIdx <= Len(subdomains)
    /\ \A u \in Units : (unitPc[u] # "idle") <=> (u <= mainIdx)
    /\ \A u \in Units : scanCount[u] <= 1
    /\ AfterBarrier =>
          /\ mainIdx = Len(subdomains)
          /\ \A u \in Units : scanCount[u] = 1
          /\ progress = Len(subdomains)

C4_Witness ==
    /\ mainPc = "exit"
    /\ Len(subdomains) >= 2
    /\ progress = Len(subdomains)
    /\ \A u \in Units : scanCount[u] = 1

\* C5: main is past wg.Wait() only when every unit has finished its scan,
\* its increment and its send; the reporter has returned, and the outcome
\* has been saved, only after that, so no unit is running or blocked on
\* progressChan when the reporter stops.
C5_BarrierThenSignalThenSave ==
    /\ Len(received) = Cardinality({u \in Units : unitPc[u] \in {"deferred", "done"}})
    /\ AfterBarrier =>
          \A u \in Units : unitPc[u] = "done" /\ scanCount[u] = 1
    /\ AfterBarrier => (progress = Len(subdomains) /\ Len(received) = Len(subdomains))
    /\ reporterPc = "returned" => mainPc \in {"save", "exit", "fatal"}
    /\ (variant = 1 /\ fileLines # <<>>) => mainPc \in {"exit", "fatal"}

C5_Witness ==
    /\ variant = 1
    /\ reporterPc = "returned"
    /\ Len(subdomains) >= 2
    /\ fileLines # <<>>
    /\ \A u \in Units : unitPc[u] = "done"

\* C6: under weak fairness of main, of every unit and of the reporter, every
\* scan, of the empty list too, runs to completion: every unit finishes, main
\* passes the barrier and leaves, and the reporter returns; no unit stays
\* blocked on progressChan and main does not stay blocked on indicatorDone.
C6_ScanRunsToCompletion == <>Terminated

C6_Witness ==
    /\ Terminated
    /\ Len(subdomains) >= 2
    /\ Len(received) = Len(subdomains)

C8_InOrderStopAtFirstMatch ==
    /\ Len(probed) <= Len(createAccountPaths(variant))
    /\ \A j \in 1..Len(probed) :
          probed[j] = ProbeURL(ScanCandidate, createAccountPaths(variant)[j])
    /\ LastProbeMatches => matchedAt = Len(probed)
    /\ matchedAt # 0 =>
          /\ Len(probed) = matchedAt
          /\ scanPc # "loop"
          /\ scanPc = "returned" => scanResult

C8_Witness ==
    /\ matchedAt = 1
    /\ Len(probed) = 1
    /\ scanPc = "returned"
    /\ scanResult

\* C9: a probed body that has a keyword, a qualifying link and a form is
\* classified by rule A: the method is "Keywords in body with form" and the
\* keyword reported is the keyword found, never the link method.
C9_KeywordRuleBeforeLinkRule ==
    (/\ lastProbe.classified
     /\ lastProbe.keyword # <<>>
     /\ lastProbe.linkHit
     /\ lastProbe.form) =>
        /\ scan.accountPortalFound
        /\ scan.detectionMethod = MethodKeywords
        /\ scan.matchedKeyword = lastProbe.keyword

C9_Witness ==
    /\ lastProbe.classified
    /\ lastProbe.keyword # <<>>
    /\ lastProbe.linkHit
    /\ lastProbe.form
    /\ scan.detectionMethod = MethodKeywords
    /\ scanPc = "returned"
    /\ scanResult

\* C10 as stated: a response is passed to the classifier if and only if its
\* status is 2xx or 3xx and its body is within the size ceiling.
C10_ClassifiedIff2xxOr3xx ==
    lastProbe.kind = "ok" =>
        (lastProbe.classified <=>
            (lastProbe.status \in 200..399 /\ ~lastProbe.over))

\* C10 amended: a response with a status in 100..599 is passed to the
\* classifier if and only if its status is 200 or 3xx and its body is within
\* the size ceiling; with any other status, the other 2xx included, the
\* path is a non-match and the scanner goes on to the next path.
C10_ClassifiedIff200Or3xx ==
    (lastProbe.kind = "ok" /\ lastProbe.status \in 100..599) =>
        /\ lastProbe.classified <=>
              ((lastProbe.status = 200 \/ lastProbe.status \in 300..399)
               /\ ~lastProbe.over)
        /\ ~(lastProbe.status = 200 \/ lastProbe.status \in 300..399) =>
              /\ ~scan.accountPortalFound
              /\ matchedAt = 0
              /\ Len(probed) < Len(createAccountPaths(variant)) => scanPc = "loop"

C10_Witness ==
    /\ lastProbe.status = 201
    /\ lastProbe.keyword # <<>>
    /\ lastProbe.form
    /\ ~lastProbe.classified
    /\ Len(probed) = 1
    /\ scanPc = "loop"

\* C11: a body longer than the ceiling of 10000 bytes, one of 10001 bytes
\* too, is not classified: the path is a non-match whatever the body holds,
\* and the scanner goes on to the next path; a body of exactly 10000 bytes
\* that came with status 200 is classified, and matches if it has a keyword
\* and a form.
C11_CeilingIsInclusive ==
    /\ lastProbe.excess >= 1 =>
          /\ ~lastProbe.classified
          /\ matchedAt # Len(probed)
          /\ Len(probed) < Len(createAccountPaths(variant)) => scanPc = "loop"
    /\ (lastProbe.kind = "ok" /\ lastProbe.status = StatusOK /\ lastProbe.excess <= 0) =>
          lastProbe.classified
    /\ (/\ lastProbe.kind = "ok" /\ lastProbe.status = StatusOK
        /\ lastProbe.excess = 0
        /\ lastProbe.keyword # <<>> /\ lastProbe.form) => matchedAt = Len(probed)

C11_Witness ==
    /\ lastProbe.excess = 1
    /\ lastProbe.status = StatusOK
    /\ lastProbe.keyword # <<>>
    /\ lastProbe.form
    /\ ~lastProbe.classified
    /\ Len(probed) = 1
    /\ scanPc = "loop"
    /\ ~scan.accountPortalFound

\* C13: the prober does not follow redirects: what the scanner sees of a
\* path that answers with a 3xx is that 3xx response, so a path that answers
\* 302 with Location /welcome and a body with a keyword and a form makes the
\* candidate matched, with /welcome as its redirect target.
C13_RedirectsNotFollowed ==
    /\ (lastProbe.kind # "none" /\ lastProbe.served.status \in 300..399) =>
          /\ lastProbe.status = lastProbe.served.status
          /\ lastProbe.location = lastProbe.served.location
    /\ (/\ lastProbe.served.status = 302
        /\ lastProbe.served.location = "/welcome"
        /\ lastProbe.served.portal) =>
          /\ scan.accountPortalFound
          /\ matchedAt = Len(probed)
          /\ scan.redirectURL = "/welcome"

\* C19: the redirect target is state of the whole scan of a candidate: a
\* path that answers with a 3xx sets it to the Location of that answer, every
\* other path leaves it as it was; so the target reported with a match is
\* the Location of the latest 3xx answer among the paths probed, empty if
\* there was none, and may come from an earlier path that did not match.
C19_RedirectTargetOfLatest3xx ==
    [][/\ Len(probed') = Len(probed) + 1 =>
             scan'.redirectURL =
                 IF lastProbe'.served.status \in 300..399
                 THEN lastProbe'.served.location
                 ELSE scan.redirectURL
       /\ Len(probed') = Len(probed) => scan'.redirectURL = scan.redirectURL
       /\ Len(probed) = 0 => scan.redirectURL = ""]_vars

\* C20: a body in which the link test succeeds also has a keyword, so a
\* classified body with a form is always decided by rule A: the method
\* "Links or buttons in body with form" is never recorded, and every matched
\* verdict has the method "Keywords in body with form" and a non-empty
\* matched keyword.
C20_LinkRuleNeverDecides ==
    /\ lastProbe.linkHit => lastProbe.keyword # <<>>
    /\ scan.detectionMethod # MethodLinks
    /\ scan.accountPortalFound =>
          /\ scan.detectionMethod = MethodKeywords
          /\ scan.matchedKeyword # <<>>
    /\ (scanPc = "returned" /\ scanResult) => scan.matchedKeyword # <<>>

C20_Witness ==
    /\ variant = 2
    /\ lastProbe.linkHit
    /\ lastProbe.form
    /\ lastProbe.classified
    /\ matchedAt = Len(probed)
    /\ scan.matchedKeyword # <<>>
    /\ scanPc = "returned"
    /\ scanResult

\* the closure of unit u has the return value of checkSubdomain
Returned(u) == unitPc[u] \notin {"idle", "check", "printLine"}

\* what checkSubdomain returns for the candidate of unit u
Matches(u) == ScanVerdict(HostScan[variant][subdomains[u]])

\* a goroutine other than unit u writes to the terminal in this step: another
\* scanner its carriage return or its result line, or the reporter its line
OtherWrites(u) ==
    \/ \E w \in Units \ {u} :
          \/ unitPc[w] = "check" /\ unitPc'[w] = "printLine"
          \/ unitPc[w] = "printLine" /\ unitPc'[w] # "printLine" /\ Matches(w)
    \/ reporterPc = "render" /\ reporterPc' = "select"

\* some anchor's href or text, or some button's text, has a keyword
ElementHit(v, body) ==
    \E match \in FindAllStringSubmatch(body, 1) :
        \E t \in {match.g1, match.g2, match.g3} : findMatchingKeyword(v, t) # <<>>

\* C12: a request that fails, or a body whose read fails, does not end the
\* scan of the candidate: that path is not classified and is not requested
\* again, the loop goes on to the next path, and the verdict is left to the
\* other paths.  A candidate whose every path fails is returned as not
\* matched, and its unit still increments progress, sends its progress event
\* and reports to the barrier.
C12_ProbeErrorSkipsPath ==
    /\ lastProbe.kind \in {"transportErr", "readErr"} =>
          /\ ~lastProbe.classified
          /\ matchedAt # Len(probed)
          /\ (Len(probed) < Len(createAccountPaths(variant)) /\ scanPc # "idle")
                => scanPc = "loop"
    /\ \A j \in 1..Len(probed) :
          probed[j] = ProbeURL(ScanCandidate, createAccountPaths(variant)[j])
    /\ (errorsOnly /\ scanPc \in {"print", "returned"}) =>
          /\ Len(probed) = Len(createAccountPaths(variant))
          /\ ~scan.accountPortalFound
          /\ ~scanResult
    /\ (errorsOnly /\ Len(subdomains) = 1 /\ Returned(1)) => ~verdict[1]
    /\ mainPc \in {"signal", "save", "exit"} =>
          /\ scanPc = "returned"
          /\ progress = 1
          /\ received = <<1>>
          /\ wg = 0

C12_Witness ==
    /\ errorsOnly
    /\ Len(probed) = Len(createAccountPaths(variant))
    /\ lastProbe.kind = "readErr"
    /\ mainPc = "exit"
    /\ unitPc[1] = "done"
    /\ ~verdict[1]
    /\ progress = 1
    /\ received = <<1>>

\* C14: a write to the output file that fails is logged and nothing more, in
\* both variants: the process does not end on it, every candidate keeps its
\* verdict and is counted, and the only lines missing from the file are those
\* whose own write failed.
C14_WriteFailureNotFatal ==
    /\ mainPc # "fatal"
    /\ AfterBarrier => progress = Len(subdomains)
    /\ (outputFlag /\ mainPc \in {"exit", "fatal"}) =>
          Len(fileLines) + writeFailures >=
              Cardinality({u \in Units : verdict[u]})

\* C15: in variant 2 every write to the output file appends one whole line,
\* the candidate of a unit whose checkSubdomain found a match; whatever the
\* interleaving of the units, a candidate that did not match has no line and,
\* when no write has failed, each candidate has as many lines as units that
\* matched it.
C15_OneLinePerMatchedCandidate ==
    variant = 2 =>
        /\ ~outputFlag => (fileLines = <<>> /\ writeFailures = 0)
        /\ \A i \in 1..Len(fileLines) : fileLines[i] \in Candidates
        /\ \A c \in Candidates :
              Count(fileLines, c) <=
                  Cardinality({u \in Units :
                                 subdomains[u] = c /\ Returned(u) /\ verdict[u]})
        /\ outputFlag =>
              Len(fileLines) + writeFailures =
                  Cardinality({u \in Units : Returned(u) /\ verdict[u]})
        /\ (outputFlag /\ writeFailures = 0) =>
              \A c \in Candidates :
                  Count(fileLines, c) =
                      Cardinality({u \in Units :
                                     subdomains[u] = c /\ Returned(u) /\ verdict[u]})

C15_Witness ==
    /\ variant = 2
    /\ outputFlag
    /\ Terminated
    /\ writeFailures = 0
    /\ subdomains = <<"http://b.test", "http://a.test">>
    /\ fileLines = <<"http://a.test">>

\* C16: every unit sends one progress event, after its scan and its
\* increment of progress; the send completes only when the reporter has
\* received the event, and only then does the unit report to the barrier; so
\* the reporter has received one event per candidate before it receives the
\* termination signal.
C16_OneEventPerCandidate ==
    /\ Len(received) = Cardinality({u \in Units : unitPc[u] \in {"deferred", "done"}})
    /\ Len(received) <= progress
    /\ \A u \in Units :
          unitPc[u] \in {"read", "send", "deferred", "done"} =>
              (scanCount[u] = 1 /\ progress >= 1)
    /\ wg = mainIdx - Cardinality({u \in Units : unitPc[u] = "done"})
    /\ reporterPc = "returned" => Len(received) = Len(subdomains)

C16_Witness ==
    /\ reporterPc = "returned"
    /\ Len(subdomains) = 2
    /\ Len(received) = 2
    /\ wg = 0

\* C17: between the carriage return a scanner writes and the result line it
\* writes after it, no other goroutine writes to the terminal: not another
\* scanner, not the reporter.
C17_ResultLineNotInterleaved ==
    [][\A u \in Units :
          (unitPc[u] = "printLine" /\ Matches(u)) => ~OtherWrites(u)]_vars

\* C18: the link test succeeds on a body if and only if some anchor's href
\* or text, or some button's text, has a keyword, whatever the letter case;
\* so it succeeds on a body with a button whose text has a keyword.
C18_LinkHitIffElementHit ==
    clsPc = "returned" => (clsResult.linkHit <=> ElementHit(variant, clsBody))

====
